---------------------------- MODULE Spec2Model ----------------------------
(***************************************************************************)
(* Model of atomic-waitgroup (src/src/lib.rs): WaitGroup, WaitGroupInner,  *)
(* WaitGroupGuard and WaitGroupFuture.                                     *)
(*                                                                         *)
(* Every atomic operation of the source (fetch_add, fetch_sub, load, swap, *)
(* store) is one step, and steps of different threads interleave freely.   *)
(* The waker mutex is a variable: a step that needs it is enabled only     *)
(* while it is free.  Atomics are taken to be sequentially consistent:     *)
(* a load returns the value of the latest store in the interleaving.       *)
(***************************************************************************)
EXTENDS Integers, FiniteSets, Sequences, TLC

\* ---------------------------------------------------------------- bounds
NumProducers == 2       \* threads calling add/done/done_many/guard drop/left
NumWaiters == 2         \* tasks calling wait_to
MaxLeft == 2            \* add is taken only while left + n <= MaxLeft
MaxNeg == 1             \* a decrement is taken only while left - n >= -MaxNeg
MaxCount == 2           \* largest argument of add(n) and done_many(n)
MaxTarget == 1          \* largest argument of wait_to(target)
MaxGen == 2             \* wait_to is called only while waker_id < MaxGen
MaxGuards == 2          \* add_guard is called only while fewer than MaxGuards guards are live

Producers == 1..NumProducers
Waiters == 1..NumWaiters
Targets == 0..MaxTarget

\* ------------------------------------------------------- program constants
NoWaiting == -1         \* WaitGroupInner.waiting: "nobody waits"
NoWaker == <<0, 0>>     \* WaitGroupInner.waker: None
NoHolder == 0           \* the waker mutex is free

VARIABLES
    left,           \* WaitGroupInner.left
    waiting,        \* WaitGroupInner.waiting
    waker,          \* WaitGroupInner.waker: NoWaker or <<task, id of the attempt that stored it>>
    waker_id,       \* WaitGroupInner.waker_id
    lock,           \* holder of the waker mutex, NoHolder when free
    wpc,            \* waiter's position in wait_to / poll / drop
    target,         \* WaitGroupFuture.target of the current (or last) call
    fid,            \* WaitGroupFuture.waker_id
    newid,          \* set_waker's local waker_id
    clearing,       \* who called _clear: "poll" (completing) or "drop" (cancelled)
    ret,            \* what the call returned to its caller: "false", "true", "cancelled", "panic"; "none" before
    notified,       \* the waker of the task was invoked since the last poll of its call started
    pended,         \* history: the current call's future returned Poll::Pending
    sawLE,          \* history: the last load of left in the call saw left <= target
    addedSince,     \* history: an increment was applied since that load
    ppc,            \* producer's position in done() / left()
    dleft,          \* done's local left
    dkind,          \* who called done(): "done" (done, done_many) or "guard"; "left" for a panicked left()
    count,          \* left()'s local count, while its caller holds the result
    guards,         \* live WaitGroupGuard values
    guardBalance,   \* history: what add_guard calls added to left minus what guard drops subtracted
    net,            \* history: sum of applied increments minus applied decrements
    cancelledId,    \* history: generation id of the last abandoned attempt, 0 if none
    fatal,          \* history: some call has panicked
    regFatal,       \* history: a registration has panicked on a threshold already set
    overlapped      \* history: a wait_to was called while another task's call was in progress

sharedVars == <<left, waiting, waker, waker_id, lock>>
waiterVars == <<wpc, target, fid, newid, clearing, ret, notified, pended, sawLE, addedSince>>
producerVars == <<ppc, dleft, dkind, count>>
ghostVars == <<guards, guardBalance, net, cancelledId, fatal, regFatal, overlapped>>
vars == <<sharedVars, waiterVars, producerVars, ghostVars>>

\* ------------------------------------------------------------------ Init
\* WaitGroupInner::new: left 0, waiting -1, waker None, waker_id 0.
Init ==
    /\ left = 0
    /\ waiting = NoWaiting
    /\ waker = NoWaker
    /\ waker_id = 0
    /\ lock = NoHolder
    /\ wpc = [w \in Waiters |-> "idle"]
    /\ target = [w \in Waiters |-> 0]
    /\ fid = [w \in Waiters |-> 0]
    /\ newid = [w \in Waiters |-> 0]
    /\ clearing = [w \in Waiters |-> "none"]
    /\ ret = [w \in Waiters |-> "none"]
    /\ notified = [w \in Waiters |-> FALSE]
    /\ pended = [w \in Waiters |-> FALSE]
    /\ sawLE = [w \in Waiters |-> FALSE]
    /\ addedSince = [w \in Waiters |-> FALSE]
    /\ ppc = [p \in Producers |-> "idle"]
    /\ dleft = [p \in Producers |-> 0]
    /\ dkind = [p \in Producers |-> "none"]
    /\ count = [p \in Producers |-> 0]
    /\ guards = 0
    /\ guardBalance = 0
    /\ net = 0
    /\ cancelledId = 0
    /\ fatal = FALSE
    /\ regFatal = FALSE
    /\ overlapped = FALSE

\* ------------------------------------------------------- pure conditions
\* Mutant of Satisfied: satisfied one unit early.
SatisfiedEarly(cur, t) == cur <= t + 1

\* Mutant of Satisfied: satisfied only strictly below the target.
SatisfiedStrict(cur, t) == cur < t

\* wait_to line 148 and _poll line 271: the threshold test.
Satisfied(cur, t) == cur <= t

\* Mutant of Negative: -1 passes as a count.
NegativeBelowMinusOne(l) == l < -1

\* done line 219: the negative-count test.
Negative(l) == l < 0

\* done line 223: nobody registered.
NobodyWaiting(w) == w < 0

\* Mutant of ShouldWake: the threshold is not compared, any decrement that
\* finds a threshold wakes.
ShouldWakeAlways(l, w) == TRUE

\* Mutant of ShouldWake: wakes only strictly below the threshold.
ShouldWakeStrict(l, w) == l < w

\* done line 226: the decrement reached the registered threshold.
ShouldWake(l, w) == l <= w

\* Mutant of AlreadyWaiting: the old threshold is not looked at.
AlreadyWaitingNever(old) == FALSE

\* Mutant of AlreadyWaiting: a threshold of 0 is taken for none.
AlreadyWaitingPositive(old) == old > 0

\* set_waker line 243: a threshold was already set.
AlreadyWaiting(old) == old >= 0

\* Mutant of SameGeneration: the comparison is inverted, so that the
\* attempt's own registration is never cleared.
SameGenerationInverted(stored, id) == stored # id

\* Mutant of SameGeneration: the generation is not compared at all.
SameGenerationAlways(stored, id) == TRUE

\* cancel_wait line 254: the stored generation is still this attempt's.
SameGeneration(stored, id) == stored = id

\* ------------------------------------------------------------- producers
\* WaitGroup::add(i): left.fetch_add(i).
Add(p, n) ==
    /\ ppc[p] = "idle"
    /\ left + n <= MaxLeft
    /\ left' = left + n
    /\ net' = net + n
    /\ addedSince' = [w \in Waiters |-> sawLE[w]]
    /\ UNCHANGED <<waiting, waker, waker_id, lock>>
    /\ UNCHANGED <<wpc, target, fid, newid, clearing, ret, notified, pended, sawLE>>
    /\ UNCHANGED producerVars
    /\ UNCHANGED <<guards, guardBalance, cancelledId, fatal, regFatal, overlapped>>

\* Mutant of AddGuard: the guard is returned without the fetch_add.
AddGuardNoIncrement(p) ==
    /\ ppc[p] = "idle"
    /\ guards < MaxGuards
    /\ net' = net + 1
    /\ guards' = guards + 1
    /\ addedSince' = [w \in Waiters |-> sawLE[w]]
    /\ UNCHANGED <<left, guardBalance>>
    /\ UNCHANGED <<waiting, waker, waker_id, lock>>
    /\ UNCHANGED <<wpc, target, fid, newid, clearing, ret, notified, pended, sawLE>>
    /\ UNCHANGED producerVars
    /\ UNCHANGED <<cancelledId, fatal, regFatal, overlapped>>

\* WaitGroup::add_guard(): left.fetch_add(1) and a new guard.
AddGuard(p) ==
    /\ ppc[p] = "idle"
    /\ left + 1 <= MaxLeft
    /\ guards < MaxGuards
    /\ left' = left + 1
    /\ net' = net + 1
    /\ guards' = guards + 1
    /\ guardBalance' = guardBalance + (left' - left)
    /\ addedSince' = [w \in Waiters |-> sawLE[w]]
    /\ UNCHANGED <<waiting, waker, waker_id, lock>>
    /\ UNCHANGED <<wpc, target, fid, newid, clearing, ret, notified, pended, sawLE>>
    /\ UNCHANGED producerVars
    /\ UNCHANGED <<cancelledId, fatal, regFatal, overlapped>>

\* WaitGroupInner::done line 217: left.fetch_sub(count) - count.
DoneSub(p, n, kind) ==
    /\ ppc[p] = "idle"
    /\ left - n >= -MaxNeg
    /\ left' = left - n
    /\ net' = net - n
    /\ dleft' = [dleft EXCEPT ![p] = left - n]
    /\ dkind' = [dkind EXCEPT ![p] = kind]
    /\ ppc' = [ppc EXCEPT ![p] = "load"]
    /\ UNCHANGED <<waiting, waker, waker_id, lock>>
    /\ UNCHANGED count
    /\ UNCHANGED waiterVars
    /\ UNCHANGED <<cancelledId, fatal, regFatal, overlapped>>

\* WaitGroup::done(): inner.done(1).
Done(p) ==
    /\ DoneSub(p, 1, "done")
    /\ UNCHANGED <<guards, guardBalance>>

\* WaitGroup::done_many(count): inner.done(count).
DoneMany(p, n) ==
    /\ DoneSub(p, n, "done")
    /\ UNCHANGED <<guards, guardBalance>>

\* Mutant of GuardDrop: the drop only subtracts, it does not go on to done's
\* wake protocol.
GuardDropNoWake(p) ==
    /\ guards > 0
    /\ ppc[p] = "idle"
    /\ left - 1 >= -MaxNeg
    /\ left' = left - 1
    /\ net' = net - 1
    /\ guards' = guards - 1
    /\ guardBalance' = guardBalance - 1
    /\ UNCHANGED <<waiting, waker, waker_id, lock>>
    /\ UNCHANGED waiterVars
    /\ UNCHANGED producerVars
    /\ UNCHANGED <<cancelledId, fatal, regFatal, overlapped>>

\* Drop for WaitGroupGuard: inner.done(1); the guard is gone afterwards.
GuardDrop(p) ==
    /\ guards > 0
    /\ DoneSub(p, 1, "guard")
    /\ guards' = guards - 1
    /\ guardBalance' = guardBalance - (left - left')

\* done's return: the locals die with the call.
DoneReturn(p) ==
    /\ ppc' = [ppc EXCEPT ![p] = "idle"]
    /\ dleft' = [dleft EXCEPT ![p] = 0]
    /\ dkind' = [dkind EXCEPT ![p] = "none"]

\* Mutant of DoneLoadWaiting: the threshold test comes before the negative
\* check, so that a negative result at or below the threshold wakes.
DoneLoadWaitingWakesFirst(p) ==
    /\ ppc[p] = "load"
    /\ IF (~NobodyWaiting(waiting)) /\ ShouldWake(dleft[p], waiting)
         THEN /\ fatal' = fatal
              /\ ppc' = [ppc EXCEPT ![p] = "wake"]
              /\ dleft' = [dleft EXCEPT ![p] = 0]
              /\ UNCHANGED dkind
         ELSE IF Negative(dleft[p])
                THEN /\ fatal' = TRUE
                     /\ ppc' = [ppc EXCEPT ![p] = "panicked"]
                     /\ dleft' = [dleft EXCEPT ![p] = 0]
                     /\ UNCHANGED dkind
                ELSE /\ fatal' = fatal
                     /\ DoneReturn(p)
    /\ UNCHANGED sharedVars
    /\ UNCHANGED waiterVars
    /\ UNCHANGED <<count, guards, guardBalance, net, cancelledId, regFatal, overlapped>>

\* done lines 218-226: waiting.load, then the negative check (panic), the
\* nobody-waiting return and the threshold test.  Neither local is read
\* after the test.
DoneLoadWaiting(p) ==
    /\ ppc[p] = "load"
    /\ IF Negative(dleft[p])
         THEN /\ fatal' = TRUE
              /\ ppc' = [ppc EXCEPT ![p] = "panicked"]
              /\ dleft' = [dleft EXCEPT ![p] = 0]
              /\ UNCHANGED dkind
         ELSE /\ fatal' = fatal
              /\ IF (~NobodyWaiting(waiting)) /\ ShouldWake(dleft[p], waiting)
                   THEN /\ ppc' = [ppc EXCEPT ![p] = "wake"]
                        /\ dleft' = [dleft EXCEPT ![p] = 0]
                        /\ UNCHANGED dkind
                   ELSE DoneReturn(p)
    /\ UNCHANGED sharedVars
    /\ UNCHANGED waiterVars
    /\ UNCHANGED <<count, guards, guardBalance, net, cancelledId, regFatal, overlapped>>

\* Mutant of DoneWake: the waker is taken out of the slot to be woken.
DoneWakeTakes(p) ==
    /\ ppc[p] = "wake"
    /\ lock = NoHolder
    /\ notified' = IF waker = NoWaker \/ wpc[waker[1]] \in {"idle", "returned"}
                     THEN notified
                     ELSE [notified EXCEPT ![waker[1]] = TRUE]
    /\ waker' = NoWaker
    /\ DoneReturn(p)
    /\ UNCHANGED <<left, waiting, waker_id, lock>>
    /\ UNCHANGED <<wpc, target, fid, newid, clearing, ret, pended, sawLE, addedSince>>
    /\ UNCHANGED count
    /\ UNCHANGED ghostVars

\* done lines 228-230: under the mutex, wake_by_ref on the stored waker,
\* which stays in the slot.  A wake of a task that is in no wait_to call
\* has nothing to resume.
DoneWake(p) ==
    /\ ppc[p] = "wake"
    /\ lock = NoHolder
    /\ notified' = IF waker = NoWaker \/ wpc[waker[1]] \in {"idle", "returned"}
                     THEN notified
                     ELSE [notified EXCEPT ![waker[1]] = TRUE]
    /\ DoneReturn(p)
    /\ UNCHANGED sharedVars
    /\ UNCHANGED <<wpc, target, fid, newid, clearing, ret, pended, sawLE, addedSince>>
    /\ UNCHANGED count
    /\ UNCHANGED ghostVars

\* WaitGroup::left(): load, panic when negative, else return the count.
Left(p) ==
    /\ ppc[p] = "idle"
    /\ IF Negative(left)
         THEN /\ ppc' = [ppc EXCEPT ![p] = "panicked"]
              /\ dkind' = [dkind EXCEPT ![p] = "left"]
              /\ fatal' = TRUE
              /\ UNCHANGED count
         ELSE /\ ppc' = [ppc EXCEPT ![p] = "left_ret"]
              /\ count' = [count EXCEPT ![p] = left]
              /\ UNCHANGED <<dkind, fatal>>
    /\ UNCHANGED sharedVars
    /\ UNCHANGED waiterVars
    /\ UNCHANGED dleft
    /\ UNCHANGED <<guards, guardBalance, net, cancelledId, regFatal, overlapped>>

\* The caller of left() goes on with the count; a panicked thread ends, and
\* another thread takes its place.
ThreadContinue(p) ==
    /\ ppc[p] \in {"left_ret", "panicked"}
    /\ DoneReturn(p)
    /\ count' = [count EXCEPT ![p] = 0]
    /\ UNCHANGED sharedVars
    /\ UNCHANGED waiterVars
    /\ UNCHANGED ghostVars

\* --------------------------------------------------------------- waiters
\* The wait_to call of the waiter is in progress.
InCall(w) == wpc[w] \notin {"idle", "returned"}

\* The call is over: poll's Ready / wait_to's return value, the end of a
\* drop, or a panic.
Return(w, r) ==
    /\ wpc' = [wpc EXCEPT ![w] = "returned"]
    /\ ret' = [ret EXCEPT ![w] = r]

\* Mutant of ClearNeeded: _clear calls cancel_wait whatever the id.
ClearNeededAlways(id) == TRUE

\* _clear line 281: an unregistered future (waker_id 0) has nothing to clear.
ClearNeeded(id) == id # 0

\* _clear lines 281-284, called by _poll when it is satisfied ("poll") or by
\* Drop ("drop"): return at once for an unregistered future, else on to
\* cancel_wait.
Clear(w, how) ==
    IF ClearNeeded(fid[w])
      THEN /\ wpc' = [wpc EXCEPT ![w] = "cw_lock"]
           /\ clearing' = [clearing EXCEPT ![w] = how]
           /\ UNCHANGED ret
      ELSE /\ Return(w, IF how = "poll" THEN "true" ELSE "cancelled")
           /\ UNCHANGED clearing

\* WaitGroup::wait_to lines 146-155: the first load of left; false when
\* already satisfied, else a WaitGroupFuture with waker_id 0.
WaitTo(w, t) ==
    /\ wpc[w] = "idle"
    /\ waker_id < MaxGen
    /\ target' = [target EXCEPT ![w] = t]
    /\ notified' = [notified EXCEPT ![w] = FALSE]
    /\ sawLE' = [sawLE EXCEPT ![w] = left <= t]
    /\ IF Satisfied(left, t)
         THEN Return(w, "false")
         ELSE /\ wpc' = [wpc EXCEPT ![w] = "created"]
              /\ UNCHANGED ret
    /\ overlapped' = (overlapped \/ \E v \in Waiters \ {w} : InCall(v))
    /\ UNCHANGED sharedVars
    /\ UNCHANGED <<fid, newid, clearing, pended, addedSince>>
    /\ UNCHANGED producerVars
    /\ UNCHANGED <<guards, guardBalance, net, cancelledId, fatal, regFatal>>

\* poll lines 301-305 with _poll: the future's first poll (waker_id == 0)
\* loads left; when satisfied _clear and Ready, else on to set_waker.
PollFirst(w) ==
    /\ wpc[w] = "created"
    /\ IF Satisfied(left, target[w])
         THEN Clear(w, "poll")
         ELSE /\ wpc' = [wpc EXCEPT ![w] = "sw_fetch"]
              /\ UNCHANGED <<ret, clearing>>
    /\ sawLE' = [sawLE EXCEPT ![w] = left <= target[w]]
    /\ UNCHANGED sharedVars
    /\ UNCHANGED <<target, fid, newid, notified, pended, addedSince>>
    /\ UNCHANGED producerVars
    /\ UNCHANGED ghostVars

\* Mutant of SetWakerFetch: the id is computed from a load, the counter is
\* not advanced.
SetWakerFetchLoads(w) ==
    /\ wpc[w] = "sw_fetch"
    /\ newid' = [newid EXCEPT ![w] = waker_id + 1]
    /\ wpc' = [wpc EXCEPT ![w] = "sw_lock"]
    /\ UNCHANGED <<left, waiting, waker, waker_id, lock>>
    /\ UNCHANGED <<target, fid, clearing, ret, notified, pended, sawLE, addedSince>>
    /\ UNCHANGED producerVars
    /\ UNCHANGED ghostVars

\* set_waker line 238: waker_id.fetch_add(1) + 1, before the mutex is taken.
SetWakerFetch(w) ==
    /\ wpc[w] = "sw_fetch"
    /\ waker_id' = waker_id + 1
    /\ newid' = [newid EXCEPT ![w] = waker_id + 1]
    /\ wpc' = [wpc EXCEPT ![w] = "sw_lock"]
    /\ UNCHANGED <<left, waiting, waker, lock>>
    /\ UNCHANGED <<target, fid, clearing, ret, notified, pended, sawLE, addedSince>>
    /\ UNCHANGED producerVars
    /\ UNCHANGED ghostVars

\* set_waker lines 240-241: lock the mutex and replace the waker.
SetWakerReplace(w) ==
    /\ wpc[w] = "sw_lock"
    /\ lock = NoHolder
    /\ lock' = w
    /\ waker' = <<w, newid[w]>>
    /\ wpc' = [wpc EXCEPT ![w] = "sw_swap"]
    /\ UNCHANGED <<left, waiting, waker_id>>
    /\ UNCHANGED <<target, fid, newid, clearing, ret, notified, pended, sawLE, addedSince>>
    /\ UNCHANGED producerVars
    /\ UNCHANGED ghostVars

\* Mutant of SetWakerSwap: poll returns Pending right after set_waker, without
\* the second load of left.
SetWakerSwapNoRecheck(w) ==
    /\ wpc[w] = "sw_swap"
    /\ waiting' = target[w]
    /\ lock' = NoHolder
    /\ newid' = [newid EXCEPT ![w] = 0]
    /\ IF AlreadyWaiting(waiting)
         THEN /\ fatal' = TRUE
              /\ regFatal' = TRUE
              /\ Return(w, "panic")
              /\ UNCHANGED <<fid, pended>>
         ELSE /\ UNCHANGED <<fatal, regFatal>>
              /\ fid' = [fid EXCEPT ![w] = newid[w]]
              /\ wpc' = [wpc EXCEPT ![w] = "suspended"]
              /\ pended' = [pended EXCEPT ![w] = TRUE]
              /\ UNCHANGED ret
    /\ UNCHANGED <<left, waker, waker_id>>
    /\ UNCHANGED <<target, clearing, notified, sawLE, addedSince>>
    /\ UNCHANGED producerVars
    /\ UNCHANGED <<guards, guardBalance, net, cancelledId, overlapped>>

\* set_waker lines 242-247 and poll line 305: waiting.swap(target); panic
\* when a threshold was set (the unwinding unlocks the mutex and drops the
\* future, whose waker_id is still 0); else unlock and record the id.
SetWakerSwap(w) ==
    /\ wpc[w] = "sw_swap"
    /\ waiting' = target[w]
    /\ lock' = NoHolder
    /\ newid' = [newid EXCEPT ![w] = 0]
    /\ IF AlreadyWaiting(waiting)
         THEN /\ fatal' = TRUE
              /\ regFatal' = TRUE
              /\ Return(w, "panic")
              /\ UNCHANGED fid
         ELSE /\ UNCHANGED <<fatal, regFatal>>
              /\ fid' = [fid EXCEPT ![w] = newid[w]]
              /\ wpc' = [wpc EXCEPT ![w] = "recheck"]
              /\ UNCHANGED ret
    /\ UNCHANGED <<left, waker, waker_id>>
    /\ UNCHANGED <<target, clearing, notified, pended, sawLE, addedSince>>
    /\ UNCHANGED producerVars
    /\ UNCHANGED <<guards, guardBalance, net, cancelledId, overlapped>>

\* poll lines 307-310 with _poll: load left; when satisfied _clear, else
\* Poll::Pending.
Recheck(w) ==
    /\ wpc[w] = "recheck"
    /\ IF Satisfied(left, target[w])
         THEN /\ Clear(w, "poll")
              /\ UNCHANGED pended
         ELSE /\ wpc' = [wpc EXCEPT ![w] = "suspended"]
              /\ pended' = [pended EXCEPT ![w] = TRUE]
              /\ UNCHANGED <<ret, clearing>>
    /\ sawLE' = [sawLE EXCEPT ![w] = left <= target[w]]
    /\ UNCHANGED sharedVars
    /\ UNCHANGED <<target, fid, newid, notified, addedSince>>
    /\ UNCHANGED producerVars
    /\ UNCHANGED ghostVars

\* The scheduler polls the suspended future again (poll line 301 finds
\* waker_id != 0): after a wake, or spuriously.
Repoll(w) ==
    /\ wpc[w] = "suspended"
    /\ wpc' = [wpc EXCEPT ![w] = "recheck"]
    /\ notified' = [notified EXCEPT ![w] = FALSE]
    /\ UNCHANGED sharedVars
    /\ UNCHANGED <<target, fid, newid, clearing, ret, pended, sawLE, addedSince>>
    /\ UNCHANGED producerVars
    /\ UNCHANGED ghostVars

\* Drop for WaitGroupFuture of a suspended future: _clear.
DropFuture(w) ==
    /\ wpc[w] = "suspended"
    /\ Clear(w, "drop")
    /\ UNCHANGED sharedVars
    /\ UNCHANGED <<target, fid, newid, notified, pended, sawLE, addedSince>>
    /\ UNCHANGED producerVars
    /\ UNCHANGED ghostVars

\* _clear line 285, then poll returns Ready and wait_to true, or drop ends.
ClearReturn(w) ==
    /\ fid' = [fid EXCEPT ![w] = 0]
    /\ Return(w, IF clearing[w] = "poll" THEN "true" ELSE "cancelled")
    /\ cancelledId' = IF clearing[w] = "drop" THEN fid[w] ELSE cancelledId
    /\ clearing' = [clearing EXCEPT ![w] = "none"]

\* Mutant of CancelWaitLock: waiting is reset to -1 before the generation is
\* compared.
CancelWaitLockStoresFirst(w) ==
    /\ wpc[w] = "cw_lock"
    /\ lock = NoHolder
    /\ waiting' = NoWaiting
    /\ IF SameGeneration(waker_id, fid[w])
         THEN /\ lock' = w
              /\ wpc' = [wpc EXCEPT ![w] = "cw_take"]
              /\ UNCHANGED <<fid, ret, clearing, cancelledId>>
         ELSE /\ UNCHANGED lock
              /\ ClearReturn(w)
    /\ UNCHANGED <<left, waker, waker_id>>
    /\ UNCHANGED <<target, newid, notified, pended, sawLE, addedSince>>
    /\ UNCHANGED producerVars
    /\ UNCHANGED <<guards, guardBalance, net, fatal, regFatal, overlapped>>

\* Mutant of CancelWaitLock: waiting is not reset to -1.
CancelWaitLockKeepsThreshold(w) ==
    /\ wpc[w] = "cw_lock"
    /\ lock = NoHolder
    /\ IF SameGeneration(waker_id, fid[w])
         THEN /\ lock' = w
              /\ wpc' = [wpc EXCEPT ![w] = "cw_take"]
              /\ UNCHANGED <<fid, ret, clearing, cancelledId>>
         ELSE /\ UNCHANGED lock
              /\ ClearReturn(w)
    /\ UNCHANGED <<left, waiting, waker, waker_id>>
    /\ UNCHANGED <<target, newid, notified, pended, sawLE, addedSince>>
    /\ UNCHANGED producerVars
    /\ UNCHANGED <<guards, guardBalance, net, fatal, regFatal, overlapped>>

\* cancel_wait lines 252-255: lock the mutex, compare the generation, and
\* store -1 to waiting when it is this attempt's; when it is not, unlock
\* and return.
CancelWaitLock(w) ==
    /\ wpc[w] = "cw_lock"
    /\ lock = NoHolder
    /\ IF SameGeneration(waker_id, fid[w])
         THEN /\ lock' = w
              /\ waiting' = NoWaiting
              /\ wpc' = [wpc EXCEPT ![w] = "cw_take"]
              /\ UNCHANGED <<fid, ret, clearing, cancelledId>>
         ELSE /\ UNCHANGED <<lock, waiting>>
              /\ ClearReturn(w)
    /\ UNCHANGED <<left, waker, waker_id>>
    /\ UNCHANGED <<target, newid, notified, pended, sawLE, addedSince>>
    /\ UNCHANGED producerVars
    /\ UNCHANGED <<guards, guardBalance, net, fatal, regFatal, overlapped>>

\* Mutant of CancelWaitTake: the waker is left in the slot.
CancelWaitTakeKeepsWaker(w) ==
    /\ wpc[w] = "cw_take"
    /\ lock' = NoHolder
    /\ ClearReturn(w)
    /\ UNCHANGED <<left, waiting, waker, waker_id>>
    /\ UNCHANGED <<target, newid, notified, pended, sawLE, addedSince>>
    /\ UNCHANGED producerVars
    /\ UNCHANGED <<guards, guardBalance, net, fatal, regFatal, overlapped>>

\* cancel_wait lines 256-258: take the waker and unlock.
CancelWaitTake(w) ==
    /\ wpc[w] = "cw_take"
    /\ waker' = NoWaker
    /\ lock' = NoHolder
    /\ ClearReturn(w)
    /\ UNCHANGED <<left, waiting, waker_id>>
    /\ UNCHANGED <<target, newid, notified, pended, sawLE, addedSince>>
    /\ UNCHANGED producerVars
    /\ UNCHANGED <<guards, guardBalance, net, fatal, regFatal, overlapped>>

\* The caller goes on after wait_to returned (or its task ended): nothing of
\* the call is left.
CallerContinue(w) ==
    /\ wpc[w] = "returned"
    /\ wpc' = [wpc EXCEPT ![w] = "idle"]
    /\ ret' = [ret EXCEPT ![w] = "none"]
    /\ target' = [target EXCEPT ![w] = 0]
    /\ pended' = [pended EXCEPT ![w] = FALSE]
    /\ sawLE' = [sawLE EXCEPT ![w] = FALSE]
    /\ addedSince' = [addedSince EXCEPT ![w] = FALSE]
    /\ notified' = [notified EXCEPT ![w] = FALSE]
    /\ UNCHANGED sharedVars
    /\ UNCHANGED <<fid, newid, clearing>>
    /\ UNCHANGED producerVars
    /\ UNCHANGED ghostVars

\* ------------------------------------------------------------------ Next
ProducerStep(p) ==
    \/ \E n \in 1..MaxCount : Add(p, n)
    \/ AddGuard(p)
    \/ Done(p)
    \/ \E n \in 0..MaxCount : DoneMany(p, n)
    \/ GuardDrop(p)
    \/ DoneLoadWaiting(p)
    \/ DoneWake(p)
    \/ Left(p)
    \/ ThreadContinue(p)

WaiterStep(w) ==
    \/ \E t \in Targets : WaitTo(w, t)
    \/ PollFirst(w)
    \/ SetWakerFetch(w)
    \/ SetWakerReplace(w)
    \/ SetWakerSwap(w)
    \/ Recheck(w)
    \/ Repoll(w)
    \/ DropFuture(w)
    \/ CancelWaitLock(w)
    \/ CancelWaitTake(w)
    \/ CallerContinue(w)

\* Single-consumer use, the use the crate supports: the wait_to calls are
\* issued one after another by one task, the producers run on
\* NumProducers threads.
Next ==
    \/ \E p \in Producers : ProducerStep(p)
    \/ WaiterStep(1)

Spec == Init /\ [][Next]_vars

\* Misuse included: NumWaiters tasks call wait_to at any time, against one
\* producer thread.
NextMulti ==
    \/ ProducerStep(1)
    \/ \E w \in Waiters : WaiterStep(w)

SpecMulti == Init /\ [][NextMulti]_vars

\* The scheduler polls a suspended future whose waker was invoked.
PollNotified(w) ==
    /\ notified[w]
    /\ Repoll(w)

\* A started done() runs to its end, a started poll (or drop) runs to its
\* end, and a woken future is polled again.  Nothing makes a caller call,
\* a spurious poll happen or a future be dropped.
Fairness ==
    /\ \A p \in Producers : WF_vars(DoneLoadWaiting(p)) /\ WF_vars(DoneWake(p))
    /\ WF_vars(PollFirst(1))
    /\ WF_vars(SetWakerFetch(1))
    /\ WF_vars(SetWakerReplace(1))
    /\ WF_vars(SetWakerSwap(1))
    /\ WF_vars(Recheck(1))
    /\ WF_vars(CancelWaitLock(1))
    /\ WF_vars(CancelWaitTake(1))
    /\ WF_vars(PollNotified(1))

\* The plain producer: add and done, no guards, no done_many, no left().
PlainProducerStep(p) ==
    \/ \E n \in 1..MaxCount : Add(p, n)
    \/ Done(p)
    \/ DoneLoadWaiting(p)
    \/ DoneWake(p)
    \/ ThreadContinue(p)

\* Single-consumer use with one thread using every producer operation and
\* the other threads adding and calling done() beside it.
NextLive ==
    \/ ProducerStep(1)
    \/ \E p \in Producers \ {1} : PlainProducerStep(p)
    \/ WaiterStep(1)

SpecLive == Init /\ [][NextLive]_vars /\ Fairness

\* ------------------------------------------------------------ properties
\* No decrement of done() is still to read waiting or to wake.
NoDecrementInProgress == \A p \in Producers : ppc[p] \notin {"load", "wake"}

Returned(w) == wpc[w] = "returned" /\ ret[w] \in {"false", "true"}

\* C3: wait_to returns only after a load of left of that call saw
\* left <= target, and when no increment was applied since that load,
\* left <= target holds once it has returned.
C3_ReturnsOnlyWhenReached ==
    \A w \in Waiters :
        Returned(w) => /\ sawLE[w]
                       /\ (~addedSince[w] => left <= target[w])

\* C3 witness: wait_to has returned after a wake (the waker alone did not
\* complete it: the poll after it saw the target reached), with no increment
\* since, here with decrements that went on below the target.
C3_Witness ==
    /\ Returned(1)
    /\ pended[1]
    /\ ~addedSince[1]
    /\ target[1] = 1
    /\ left = 0

\* C4: wait_to returns false exactly when its first load sees left <= target
\* (and the step that returns false is that load); the call then registers
\* nothing: waiting, waker and waker_id are unchanged, waiting is none and
\* the waker slot empty, and its future never returned Pending.
C4_FalseIffFirstLoad ==
    [][\A w \in Waiters :
         /\ \A t \in Targets :
               WaitTo(w, t) =>
                  /\ (wpc'[w] = "returned" /\ ret'[w] = "false") <=> left <= t
                  /\ left <= t =>
                        /\ UNCHANGED <<waiting, waker, waker_id>>
                        /\ waiting' = NoWaiting
                        /\ waker' = NoWaker
                        /\ ~pended'[w]
                        /\ fid'[w] = 0
         /\ (ret'[w] = "false" /\ ret[w] # "false") =>
               \E t \in Targets : WaitTo(w, t) /\ left <= t
      ]_vars

\* C4 witness: after an earlier registration, a wait_to returned false with
\* left equal to its target.
C4_Witness ==
    /\ wpc[1] = "returned"
    /\ ret[1] = "false"
    /\ waker_id > 0
    /\ left = target[1]
    /\ target[1] > 0

\* C5 (as claimed): wait_to returns true if and only if its future returned
\* Pending at least once.
C5_TrueIffSuspended ==
    \A w \in Waiters :
        Returned(w) => (ret[w] = "true" <=> pended[w])

Outstanding(v) == fid[v] # 0 /\ wpc[v] \in {"recheck", "suspended"}

C8_LeftIsNetSum ==
    [][/\ left = net
       /\ \A p \in Producers :
            (Left(p) /\ net >= 0) => ppc'[p] = "left_ret" /\ count'[p] = net
      ]_vars

\* C8 witness: left() returned 1 to one thread after increments and while
\* a decrement of another thread has been applied and is still in progress.
C8_Witness ==
    /\ ppc[1] = "left_ret"
    /\ count[1] = 1
    /\ ppc[2] = "load"
    /\ guards = 1

\* C9: a done(), done_many(n) or guard drop whose post-decrement value is
\* negative panics, whether or not a waiter is registered, and left() panics
\* whenever it reads a negative counter.
C9_NegativeIsFatal ==
    [][\A p \in Producers :
         /\ (DoneLoadWaiting(p) /\ dleft[p] < 0) => ppc'[p] = "panicked" /\ fatal'
         /\ (Left(p) /\ left < 0) => ppc'[p] = "panicked" /\ fatal'
      ]_vars

\* C9 witness: a guard drop has panicked on -1 while a waiter is registered,
\* and a left() of another thread has panicked too.
C9_Witness ==
    /\ ppc[1] = "panicked"
    /\ dkind[1] = "guard"
    /\ ppc[2] = "panicked"
    /\ dkind[2] = "left"
    /\ waiting >= 0
    /\ left < 0

\* C10: add_guard adds exactly 1 and a guard drop subtracts exactly 1, once:
\* what the guards have added minus what their drops have subtracted is the
\* number of live guards in every state; and a guard drop runs done's wake
\* protocol: when its post-decrement value is not negative and at or below
\* the threshold it reads, it goes on to wake, and its wake step invokes the
\* stored waker.
C10_GuardOnceAndWakes ==
    [][/\ guardBalance = guards
       /\ \A p \in Producers :
            /\ AddGuard(p) => left' = left + 1 /\ guards' = guards + 1
            /\ GuardDrop(p) =>
                  /\ left' = left - 1
                  /\ guards' = guards - 1
                  /\ ppc'[p] = "load" /\ dleft'[p] = left - 1 /\ dkind'[p] = "guard"
            /\ (DoneLoadWaiting(p) /\ dkind[p] = "guard" /\ dleft[p] >= 0
                  /\ waiting >= 0 /\ dleft[p] <= waiting)
                  => ppc'[p] = "wake" /\ dkind'[p] = "guard"
            /\ (DoneWake(p) /\ dkind[p] = "guard" /\ waker # NoWaker
                  /\ InCall(waker[1]))
                  => notified'[waker[1]]
      ]_vars

\* C10 witness: two guards were created, one is still live, and the drop of
\* the other has woken the suspended waiter.
C10_Witness ==
    /\ guards = 1
    /\ guardBalance = 1
    /\ left = 1
    /\ wpc[1] = "suspended"
    /\ target[1] = 1
    /\ notified[1]
    /\ NoDecrementInProgress
    /\ net = 1

\* The attempt with generation id g is registered and its deregistration has
\* not completed: its future still records the id.
RegisteredAttempt(g) ==
    \E w \in Waiters : fid[w] = g /\ wpc[w] \in {"recheck", "suspended", "cw_lock"}

\* C11: no callback after deregistration.  The callback a decrement invokes
\* belongs to an attempt that is registered and has not completed its
\* deregistration; a decrement that read the threshold while it was set and
\* takes the mutex after the deregistration finds the slot empty and invokes
\* nothing.
C11_NoCallbackAfterDeregistration ==
    [][\A p \in Producers :
         DoneWake(p) =>
            /\ waker # NoWaker => RegisteredAttempt(waker[2])
            /\ (\A w \in Waiters : fid[w] = 0) =>
                  waker = NoWaker /\ UNCHANGED notified
      ]_vars

\* C11 witness: a decrement has read the threshold and is about to take the
\* mutex, and meanwhile the attempt was abandoned and has deregistered.
C11_Witness ==
    /\ \E p \in Producers : ppc[p] = "wake"
    /\ wpc[1] = "returned"
    /\ ret[1] = "cancelled"
    /\ waiting = NoWaiting
    /\ waker = NoWaker

\* C12: sequential waits never fail for double registration.  With the calls
\* issued one after another by one consumer, every registration finds the
\* threshold none when it swaps it, so that the call does not panic, whatever
\* the targets of the calls and whatever the producer threads do meanwhile;
\* and no wait_to call has panicked in any state.
C12_SequentialWaitsNeverFatal ==
    [][/\ SetWakerSwap(1) =>
            /\ waiting = NoWaiting
            /\ wpc'[1] = "recheck"
            /\ fatal' = fatal
       /\ ret'[1] # "panic"
      ]_vars

\* C12 witness: after an abandoned first attempt the consumer has registered
\* a second one, on target 1, while a decrement of a producer thread is in
\* progress and a guard is live.
C12_Witness ==
    /\ cancelledId = 1
    /\ fid[1] = 2
    /\ wpc[1] = "suspended"
    /\ waiting = 1
    /\ \E p \in Producers : ppc[p] = "load"
    /\ guards > 0

\* C13 (as claimed): the threshold, the callback and the generation counter
\* change as a unit.  Whenever the mutex is free, either nothing was ever
\* registered, or the attempt the generation counter identifies is the
\* registered one (the threshold is its target, the callback its waker), or
\* that attempt is over and the threshold is none and the slot empty.
C13_SlotConsistentAsUnit ==
    lock = NoHolder =>
        \/ /\ waker_id = 0
           /\ waiting = NoWaiting
           /\ waker = NoWaker
        \/ \E w \in Waiters :
              /\ fid[w] = waker_id
              /\ waker = <<w, waker_id>>
              /\ waiting = target[w]
        \/ /\ waker_id > 0
           /\ \A w \in Waiters : fid[w] # waker_id /\ newid[w] # waker_id
           /\ waiting = NoWaiting
           /\ waker = NoWaker

\* C14: the frame of deregistration.  cancel_wait with generation id g sets
\* the threshold to none and (in its second step, still under the mutex)
\* empties the callback slot exactly when the stored generation counter
\* equals g at its load; otherwise it changes nothing of the shared state.
\* In neither case does it change the generation counter or left.  So a
\* stale attempt leaves the threshold and callback of a newer one alone.
C14_DeregistrationFrame ==
    [][\A w \in Waiters :
         /\ CancelWaitLock(w) =>
               /\ UNCHANGED <<waker_id, left, waker>>
               /\ IF waker_id = fid[w]
                    THEN waiting' = NoWaiting /\ lock' = w /\ wpc'[w] = "cw_take"
                    ELSE UNCHANGED <<waiting, lock>> /\ wpc'[w] = "returned"
               /\ fid[w] < waker_id => UNCHANGED <<waiting, waker>>
         /\ CancelWaitTake(w) =>
               /\ waiting = NoWaiting
               /\ waker' = NoWaker
               /\ lock' = NoHolder
               /\ UNCHANGED <<waiting, waker_id, left>>
      ]_vars

\* C14 witness: the first attempt has deregistered after a second task's
\* registration overwrote the slot; the deregistration found the newer
\* generation and left that task's threshold and callback where they were.
C14_Witness ==
    /\ wpc[1] = "returned"
    /\ ret[1] \in {"true", "cancelled"}
    /\ waker = <<2, 2>>
    /\ waiting = target[2]
    /\ waiting # NoWaiting
    /\ lock = NoHolder
    /\ wpc[2] = "returned"
    /\ ret[2] = "panic"

\* C15: producers never modify the registration slot.  Every step of add,
\* add_guard, done, done_many, a guard drop and left leaves the threshold,
\* the callback slot and the generation counter unchanged, also the step of
\* a decrement that invokes the callback; and add and add_guard invoke no
\* callback.
C15_ProducersLeaveSlot ==
    [][\A p \in Producers :
         /\ ProducerStep(p) => UNCHANGED <<waiting, waker, waker_id>>
         /\ (DoneWake(p) /\ waker # NoWaker) =>
               /\ waker' = waker
               /\ waiting' = waiting
               /\ InCall(waker[1]) => notified'[waker[1]]
         /\ ((\E n \in 1..MaxCount : Add(p, n)) \/ AddGuard(p)) =>
               UNCHANGED notified
      ]_vars

\* C15 witness: the callback of the suspended attempt was invoked by one
\* decrement and is still registered, and a second decrement is about to
\* invoke it again.
C15_Witness ==
    /\ wpc[1] = "suspended"
    /\ notified[1]
    /\ waker = <<1, fid[1]>>
    /\ waiting = target[1]
    /\ \E p \in Producers : ppc[p] = "wake"

\* C16: the wake condition.  A decrement goes on to invoke the callback only
\* if the threshold it loads after its subtraction is not none and its own
\* post-decrement value is at or below that threshold; a decrement whose
\* value is not negative and that loads none, or a threshold below its
\* value, returns without invoking anything; and a callback is invoked only
\* by the wake step of a decrement that finds the slot filled.
C16_WakeCondition ==
    [][/\ \A p \in Producers :
            DoneLoadWaiting(p) =>
               /\ ppc'[p] = "wake" => (waiting # NoWaiting /\ dleft[p] <= waiting)
               /\ (dleft[p] >= 0 /\ (waiting = NoWaiting \/ dleft[p] > waiting)) =>
                     ppc'[p] = "idle"
               /\ UNCHANGED notified
       /\ \A w \in Waiters :
            (notified'[w] /\ ~notified[w]) =>
               \E p \in Producers : DoneWake(p) /\ waker # NoWaker /\ waker[1] = w
      ]_vars

\* C16 witness: with a waiter suspended on threshold 0, a decrement has taken
\* left from 2 to 1 and is at its load of the threshold, which its value
\* exceeds; nothing has been delivered to the waiter.
C16_Witness ==
    /\ wpc[1] = "suspended"
    /\ waiting = 0
    /\ \E p \in Producers : ppc[p] = "load" /\ dleft[p] = 1
    /\ left = 1
    /\ ~notified[1]

\* C17: the generation counter.  It never decreases; it changes only in
\* set_waker, by exactly 1, once per attempt that registers (the attempt has
\* no id yet), and the first id handed out is 1; the id an attempt records is
\* the one it consumed and stays the same over all its polls; every other
\* step (a call that ends without registering, a re-poll, a deregistration,
\* increments and decrements) leaves the counter unchanged.
C17_GenerationCounter ==
    [][/\ waker_id' >= waker_id
       /\ waker_id' # waker_id =>
             /\ waker_id' = waker_id + 1
             /\ SetWakerFetch(1)
             /\ fid[1] = 0
             /\ newid'[1] = waker_id'
       /\ SetWakerFetch(1) => waker_id' = waker_id + 1
       /\ (waker_id = 0 /\ SetWakerFetch(1)) => newid'[1] = 1
       /\ SetWakerSwap(1) => fid'[1] = newid[1] /\ fid'[1] = waker_id
       /\ (fid[1] # 0 /\ fid'[1] # 0) => fid'[1] = fid[1]
       /\ (Repoll(1) \/ Recheck(1) \/ CancelWaitLock(1) \/ CancelWaitTake(1)) =>
             UNCHANGED waker_id
       /\ (wpc[1] \in {"idle", "created"} /\ wpc'[1] = "returned") =>
             UNCHANGED waker_id
      ]_vars

\* C17 witness: the second registering attempt holds id 2, was suspended and
\* is being polled again, with the counter still at 2.
C17_Witness ==
    /\ waker_id = 2
    /\ fid[1] = 2
    /\ wpc[1] = "recheck"
    /\ pended[1]

\* The state of the WaitGroupFuture of the waiter's call: "Unregistered" and
\* "Registered" by its waker_id while the call is in progress, "Completed"
\* once poll returned Ready, "Cancelled" once Drop ended an unfinished wait,
\* "None" when the task has no future (before a call, after wait_to returned
\* false, after a panic).
FutureState(w) ==
    CASE InCall(w) /\ fid[w] = 0 -> "Unregistered"
      [] InCall(w) /\ fid[w] # 0 -> "Registered"
      [] wpc[w] = "returned" /\ ret[w] = "true" -> "Completed"
      [] wpc[w] = "returned" /\ ret[w] = "cancelled" -> "Cancelled"
      [] OTHER -> "None"

\* The moves of a future the source allows, and the end of the future when
\* its caller goes on.
FutureMoves ==
    { <<"None", "Unregistered">>,
      <<"Unregistered", "Registered">>,
      <<"Unregistered", "Completed">>,
      <<"Registered", "Completed">>,
      <<"Registered", "Cancelled">>,
      <<"Completed", "None">>,
      <<"Cancelled", "None">> }

\* C18: the state machine of a future.  It moves only Unregistered ->
\* Registered -> Completed, Unregistered -> Completed or Registered ->
\* Cancelled; it registers only while Unregistered (so at most once); it
\* enters cancel_wait only from Registered, once, and leaves Registered
\* only through it; a first poll that completes deregisters nothing; a poll
\* of a Registered future that finds left > target returns Pending and
\* leaves the slot unchanged; and a Completed or Cancelled future does
\* nothing more: it only ends, when its caller goes on.
C18_FutureStateMachine ==
    [][\A w \in Waiters :
         /\ FutureState(w)' # FutureState(w) =>
               <<FutureState(w), FutureState(w)'>> \in FutureMoves
         /\ SetWakerSwap(w) =>
               FutureState(w) = "Unregistered" /\ FutureState(w)' = "Registered"
         /\ (SetWakerFetch(w) \/ SetWakerReplace(w)) =>
               FutureState(w) = "Unregistered"
         /\ (CancelWaitLock(w) \/ CancelWaitTake(w)) => FutureState(w) = "Registered"
         /\ (wpc'[w] = "cw_lock" /\ wpc[w] # "cw_lock") =>
               wpc[w] \in {"recheck", "suspended"} /\ fid[w] # 0
         /\ wpc[w] = "cw_lock" => wpc'[w] \in {"cw_lock", "cw_take", "returned"}
         /\ (FutureState(w) = "Registered" /\ FutureState(w)' # "Registered") =>
               /\ CancelWaitLock(w) \/ CancelWaitTake(w)
               /\ fid'[w] = 0
         /\ (FutureState(w) = "Unregistered" /\ FutureState(w)' = "Completed") =>
               PollFirst(w) /\ UNCHANGED sharedVars
         /\ (Recheck(w) /\ left > target[w]) =>
               /\ wpc'[w] = "suspended"
               /\ pended'[w]
               /\ FutureState(w)' = "Registered"
               /\ UNCHANGED <<waiting, waker, waker_id, lock>>
         /\ FutureState(w) \in {"Completed", "Cancelled"} =>
               \/ UNCHANGED <<wpc[w], fid[w], ret[w]>>
               \/ CallerContinue(w) /\ fid'[w] = 0
      ]_vars

\* C18 witness: one future of the consumer was cancelled while Registered, a
\* later one registered, returned Pending, and has completed; the slot is
\* clear.
C18_Witness ==
    /\ FutureState(1) = "Completed"
    /\ pended[1]
    /\ cancelledId = 1
    /\ waker_id = 2
    /\ fid[1] = 0
    /\ waiting = NoWaiting
    /\ waker = NoWaker

\* The futures that are Registered.
RegisteredFutures == {w \in Waiters : FutureState(w) = "Registered"}

\* C19: the single-waiter invariant.  As long as nothing has panicked at
\* most one future is Registered; and as long as no wait_to was called
\* while another task's call was in progress, whenever the mutex is free the
\* threshold is set exactly when one future is Registered, and then it is
\* that future's target and the generation counter is the id the future
\* recorded.
C19_SingleWaiter ==
    /\ ~fatal => Cardinality(RegisteredFutures) <= 1
    /\ (~overlapped /\ lock = NoHolder) =>
          /\ waiting # NoWaiting <=> Cardinality(RegisteredFutures) = 1
          /\ \A w \in RegisteredFutures :
                waiting = target[w] /\ waker_id = fid[w]

\* C19 witness: the calls were issued one after another, by the two tasks in
\* turn; the second registration, of task 2 on target 1, is the one in the
\* slot, and task 1 has no call in progress.
C19_Witness ==
    /\ ~overlapped
    /\ ~fatal
    /\ lock = NoHolder
    /\ RegisteredFutures = {2}
    /\ fid[2] = 2
    /\ waiting = 1
    /\ wpc[1] = "idle"
    /\ cancelledId = 1

\* C20: threshold and callback go together.  In every reachable state in
\* which the mutex is free, the threshold is none exactly when the callback
\* slot is empty; also in the states that follow a panic of a second
\* registration.
C20_ThresholdIffCallback ==
    lock = NoHolder => (waiting = NoWaiting <=> waker = NoWaker)

\* C20 witness: a second registration has panicked and its task has ended;
\* the threshold and the callback it wrote are both still in the slot.
C20_Witness ==
    /\ fatal
    /\ lock = NoHolder
    /\ wpc[2] = "idle"
    /\ waker = <<2, 2>>
    /\ waiting = 0
    /\ FutureState(1) = "Registered"
    /\ target[1] = 1

\* C21 (as claimed): after a double registration.  The registration that
\* panics has by then advanced the generation counter and written its own
\* callback and threshold; from then on every deregistration finds another
\* generation and changes nothing, the threshold is never none again, and
\* every later registration panics too.
C21_StuckAfterDoubleRegistration ==
    [][/\ \A w \in Waiters :
            (SetWakerSwap(w) /\ waiting # NoWaiting) =>
               /\ newid[w] > 0 /\ newid[w] <= waker_id
               /\ waker = <<w, newid[w]>> /\ waker' = waker
               /\ waiting' = target[w]
               /\ ret'[w] = "panic" /\ fid'[w] = 0 /\ regFatal'
       /\ \A w \in Waiters :
            (regFatal /\ CancelWaitLock(w)) =>
               fid[w] # waker_id /\ UNCHANGED <<waiting, waker, lock>>
       /\ regFatal => waiting' # NoWaiting
       /\ \A w \in Waiters :
            (regFatal /\ SetWakerSwap(w)) => ret'[w] = "panic"
      ]_vars

\* C22: a decrement that panics is not rolled back and wakes nobody.  The
\* subtraction is applied also when its result is negative; the decrement
\* then panics at its check without reaching the wake step, also when a
\* threshold at or above its result is registered; neither the panic nor the
\* end of the panicked thread changes left or delivers a wake; left rises
\* only by an increment; and a left() that reads the negative counter
\* panics, on whichever thread.
C22_NegativeNotRolledBack ==
    [][/\ \A p \in Producers :
            /\ \A n \in 0..MaxCount :
                  (DoneSub(p, n, "done") \/ DoneSub(p, n, "guard")) =>
                     left' = left - n /\ dleft'[p] = left - n
            /\ (DoneLoadWaiting(p) /\ dleft[p] < 0) =>
                  /\ ppc'[p] = "panicked"
                  /\ fatal'
                  /\ UNCHANGED <<left, notified>>
            /\ ppc[p] = "panicked" =>
                  /\ ppc'[p] \in {"panicked", "idle"}
                  /\ ppc'[p] = "idle" => UNCHANGED <<left, notified>>
            /\ (Left(p) /\ left < 0) => ppc'[p] = "panicked"
       /\ left' > left =>
            \E p \in Producers : AddGuard(p) \/ \E n \in 1..MaxCount : Add(p, n)
       /\ \A w \in Waiters :
            (notified'[w] /\ ~notified[w]) =>
               \E p \in Producers : DoneWake(p) /\ dkind[p] # "left" /\ ppc[p] = "wake"
      ]_vars

\* C22 witness: with the consumer suspended on target 0, a done_many has
\* taken left to -1 and panicked; left is still -1, the target is reached,
\* the consumer was not woken, and a left() on the other thread has panicked
\* as well.
C22_Witness ==
    /\ wpc[1] = "suspended"
    /\ target[1] = 0
    /\ waiting = 0
    /\ left = -1
    /\ ~notified[1]
    /\ \E p, q \in Producers :
          /\ ppc[p] = "panicked" /\ dkind[p] = "done"
          /\ ppc[q] = "panicked" /\ dkind[q] = "left"

=============================================================================
